---- MODULE Spec2Model ----
(***************************************************************************)
(* docs-to-pdf: a three stage pipeline.                                    *)
(*   extract_urls.py  HTML anchors -> manifest (url, title, file_name)     *)
(*   save_pages.py    manifest -> one PDF per record, via an external      *)
(*                   command, with skip-if-exists and retry/backoff        *)
(*   merge_pdfs.py    manifest + PDF directory -> one bookmarked PDF       *)
(* Each stage is a separate process; each has its own specification here   *)
(* (SpecExtract, SpecRender, SpecMerge) over its own variables, the other  *)
(* stages' variables held at their idle values.                            *)
(* Strings whose characters matter are sequences of one-character strings. *)
(***************************************************************************)
EXTENDS Integers, Sequences, FiniteSets, TLC

\* ------------------------------------------------------------------ bounds
\* Longest manifest handed to the renderer.
MaxLinks == 2
\* Largest --max-retries value explored (the CLI default is 3).
MaxRetriesBound == 3

\* Longest manifest handed to the merger.
MaxMergeLinks == 3
\* Largest page count of a PDF in the directory.
MaxPages == 2

\* Largest number of anchors in the HTML document given to the extractor.
MaxAnchors == 3

\* save_pages.py:102  the default of --max-retries
DefaultMaxRetries == 3

\* Manifest records the renderer may be given (duplicates are possible: the
\* renderer reads whatever manifest it is given). One url starts with a slash,
\* as the hrefs of a table of contents usually do, one does not.
RenderRecords == {[url |-> <<"/", "a">>, file_name |-> "A.pdf"],
                  [url |-> <<"b">>, file_name |-> "B.pdf"]}
\* File names a manifest record may carry.
FileNames == {r.file_name : r \in RenderRecords}
\* Values of the manifest's baseUrl: without, with one, with two trailing slashes.
RenderBaseUrls == { <<"h", ":", "x">>, <<"h", ":", "x", "/">>, <<"h", ":", "x", "/", "/">> }
\* Exit codes of the external rendering command.
ExitCodes == {0, 1, 2}

\* ================================================================ renderer
VARIABLES
    data_ok,          \* whether read_json returned a non-empty dict
    data_base_url,    \* save_pages.main: data["baseUrl"]
    links,            \* save_pages.main: data["links"] (url, file_name)
    output_dir,       \* the set of file names that exist under args.output_dir
    max_retries,      \* args.max_retries
    run,              \* which run of save_pages.main this is (1 = first, 2 = a later one)
    pc,               \* "main" (loop head), "node" (inside run_node_save), "done"
    idx,              \* main's loop index (1-based position in links)
    attempt,          \* run_node_save's loop variable
    code,             \* return code of the last run_node_save call (-1: none yet)
    success, fail, skipped,   \* main's counters
    invocations,      \* subprocess.run calls made in this run of main
    sleeps,           \* time.sleep durations of the current run_node_save call
    log,              \* per attempt of the current call: did the command meet its contract
    status,           \* per record of this run: "pending", "success", "fail", "skipped"
    visited,          \* indices of the records main has handled in this run, in order
    prev_status,      \* status at the end of the previous run
    dir_at_start,     \* output_dir when this run of main started
    full_url,         \* the --url given to the external command in the current call
    first_exit,       \* exit code of the first attempt of the current call (-1: none)
    all_exit_zero,    \* whether every invocation of this run exited with code 0
    all_met,          \* whether every invocation of this run met the contract
    r_exit_code       \* exit code of the save_pages process (-1: still running)

\* What the renderer reads once and never changes.
rdata == <<data_ok, data_base_url, links>>

rvars == <<data_ok, data_base_url, full_url, first_exit, all_exit_zero, all_met,
           r_exit_code, links, output_dir, max_retries, run, pc, idx, attempt, code, success,
           fail, skipped, invocations, sleeps, log, status, visited, prev_status,
           dir_at_start>>

\* ================================================================== merger
VARIABLES
    json_ok,          \* whether read_json_file returned the manifest
    json_links,       \* merge_pdfs.main: json_data['links'] (title, file_name)
    dir_exists,       \* whether args.pdf_dir exists
    pdf_dir,          \* what each file name is in args.pdf_dir: missing, or a PDF
    mpc,              \* "start", "found" (files listed), "merge" (in the loop), "done"
    pdf_files,        \* the list get_pdf_files_in_order returned
    m_i,              \* merge loop index (1-based position in pdf_files)
    processed_count, error_count, current_page, bookmarks,  \* the merge loop's accumulators
    writer_pages,     \* pages held by the PdfWriter
    outline,          \* outline entries attached to the PdfWriter
    wrote,            \* whether the output file was written
    result,           \* the dict merge_pdfs_with_bookmarks returned
    exit_code,        \* merge_pdfs.main's return value (-1: still running)
    rec_state,        \* per manifest record: "Pending", "MissingFile", "Merged", "ReadError"
    merge_visits      \* manifest positions the merge loop has handled, in order

\* What the merger reads and never changes.
mdata == <<json_ok, json_links, dir_exists, pdf_dir>>

mvars == <<json_ok, json_links, dir_exists, pdf_dir, mpc, pdf_files, m_i, processed_count,
           error_count, current_page, bookmarks, writer_pages, outline, wrote,
           result, exit_code, rec_state, merge_visits>>

\* =============================================================== extractor
VARIABLES
    html_ok,          \* whether args.html could be opened and read
    html_doc,         \* the <a> elements of the parsed document, in document order
    base_url,         \* args.base_url
    epc,              \* "start", "extracted", "resolved", "written", "read", "failed"
    extracted,        \* what extract_urls_from_html returned
    e_links,          \* extract_urls.main: links (renamed in place by the collision pass)
    title_dict,       \* extract_urls.main: title_dict
    manifest,         \* the payload write_extracted_json built (<<>>: none)
    json_text,        \* the characters of the file json.dump wrote (<<>>: none)
    read_back,        \* what read_json returned for that file (<<>>: not read)
    e_exit_code       \* exit code of the extract_urls process (-1: still running)

\* What the extractor is given and never changes.
edata == <<html_ok, html_doc, base_url>>

evars == <<html_ok, html_doc, base_url, epc, extracted, e_links, title_dict, manifest,
           json_text, read_back, e_exit_code>>

vars == <<rvars, mvars, evars>>

\* str.rstrip(chars): trailing characters of the set removed
RECURSIVE RStripChars(_, _)
RStripChars(str, chars) ==
    IF str # <<>> /\ str[Len(str)] \in chars
      THEN RStripChars(SubSeq(str, 1, Len(str) - 1), chars)
      ELSE str

\* str.lstrip(chars)
RECURSIVE LStripChars(_, _)
LStripChars(str, chars) ==
    IF str # <<>> /\ str[1] \in chars THEN LStripChars(Tail(str), chars) ELSE str

RECURSIVE Pow2(_)
Pow2(n) == IF n = 0 THEN 1 ELSE 2 * Pow2(n - 1)

\* The external command's contract (what an attempt of it did, whatever the
\* driver makes of it): exit code 0 and the target file present afterwards.
MetContract(rc, present) == rc = 0 /\ present

\* save_pages.py:129  os.path.exists(pdf_path)
AlreadyExists(file_name, dir) == file_name \in dir

\* Mutants of AttemptOk: the file check dropped; the exit code ignored; no
\* outcome accepted.
AttemptOkNoFileCheck(rc, exists) == rc = 0
AttemptOkAnyExit(rc, exists) == exists
AttemptOkNever(rc, exists) == FALSE

\* save_pages.py:63,68  returncode == 0 and the PDF file exists
AttemptOk(rc, exists) == rc = 0 /\ exists

\* Mutant of ShouldRetry: one retry too many.
ShouldRetryInclusive(a, mr) == a <= mr

\* save_pages.py:74,87  if attempt < max_retries
ShouldRetry(a, mr) == a < mr

\* Mutant of WaitTime: linear instead of exponential backoff.
WaitTimeLinear(a) == 2 * a

\* save_pages.py:75,88  wait_time = 2 ** attempt
WaitTime(a) == Pow2(a)

\* save_pages.py:80,93  the code returned when the final attempt failed
FailCode(rc) == IF rc = 0 THEN 1 ELSE rc

\* save_pages.py:121  full_url = base_url.rstrip('/') + '/' + link["url"]
FullUrl(base, url) == RStripChars(base, {"/"}) \o <<"/">> \o url

\* save_pages.py:135-138  main counts the returned code
IsSuccessCode(c) == c = 0

\* The merger's variables while another stage runs.
MergeIdle ==
    /\ json_ok = FALSE /\ rec_state = <<>> /\ merge_visits = <<>>
    /\ json_links = <<>> /\ dir_exists = FALSE /\ pdf_dir = <<>> /\ mpc = "idle"
    /\ pdf_files = <<>> /\ m_i = 0 /\ processed_count = 0 /\ error_count = 0
    /\ current_page = 0 /\ bookmarks = <<>> /\ writer_pages = 0 /\ outline = <<>>
    /\ wrote = FALSE /\ result = <<>> /\ exit_code = -1

\* The extractor's variables while another stage runs.
ExtractIdle ==
    /\ html_ok = FALSE /\ json_text = <<>> /\ read_back = <<>> /\ e_exit_code = -1
    /\ html_doc = <<>> /\ base_url = <<>> /\ epc = "idle" /\ extracted = <<>>
    /\ e_links = <<>> /\ title_dict = <<>> /\ manifest = <<>>

AllPending == [i \in 1..Len(links) |-> "pending"]

InitRender ==
    /\ data_ok \in BOOLEAN
    /\ links \in UNION {[1..n -> RenderRecords] : n \in 0..MaxLinks}
    /\ data_base_url \in RenderBaseUrls
    /\ ~data_ok => links = <<>> /\ data_base_url = <<"h", ":", "x">>
    /\ output_dir \in SUBSET FileNames
    /\ max_retries \in 0..MaxRetriesBound
    /\ full_url = <<>>
    /\ first_exit = -1
    /\ all_exit_zero = TRUE /\ all_met = TRUE
    /\ r_exit_code = -1
    /\ run = 1
    /\ pc = "start"
    /\ idx = 1
    /\ attempt = 0
    /\ code = -1
    /\ success = 0 /\ fail = 0 /\ skipped = 0
    /\ invocations = 0
    /\ sleeps = <<>>
    /\ log = <<>>
    /\ status = AllPending
    /\ visited = <<>>
    /\ prev_status = AllPending
    /\ dir_at_start = output_dir
    /\ MergeIdle
    /\ ExtractIdle

\* save_pages.py:109-119  main reads the manifest: it exits with code 1 when
\* read_json gave nothing, and enters the loop otherwise
MainReadJson ==
    /\ UNCHANGED <<mvars, evars>>
    /\ pc = "start"
    /\ IF data_ok
         THEN pc' = "main" /\ UNCHANGED r_exit_code
         ELSE pc' = "exit" /\ r_exit_code' = 1
    /\ UNCHANGED <<rdata, output_dir, max_retries, run, idx, attempt, code, success,
                   fail, skipped, invocations, sleeps, log, status, visited,
                   prev_status, dir_at_start, full_url, first_exit, all_exit_zero,
                   all_met>>

\* save_pages.py:120-132  a loop iteration whose target file already exists
MainSkip ==
    /\ UNCHANGED <<mvars, evars>>
    /\ pc = "main"
    /\ idx <= Len(links)
    /\ AlreadyExists(links[idx].file_name, output_dir)
    /\ skipped' = skipped + 1
    /\ status' = [status EXCEPT ![idx] = "skipped"]
    /\ visited' = Append(visited, idx)
    /\ idx' = idx + 1
    /\ UNCHANGED <<rdata, output_dir, max_retries, run, pc, attempt, code, success,
                   fail, invocations, sleeps, log, prev_status, dir_at_start,
                   full_url, first_exit, all_exit_zero, all_met, r_exit_code>>

\* save_pages.py:134, 60  main calls run_node_save, whose loop starts at attempt 0
MainCall ==
    /\ UNCHANGED <<mvars, evars>>
    /\ pc = "main"
    /\ idx <= Len(links)
    /\ ~AlreadyExists(links[idx].file_name, output_dir)
    /\ full_url' = FullUrl(data_base_url, links[idx].url)
    /\ pc' = "node"
    /\ attempt' = 0
    /\ sleeps' = <<>>
    /\ log' = <<>>
    /\ first_exit' = -1
    /\ UNCHANGED <<rdata, output_dir, max_retries, run, idx, code, success, fail,
                   skipped, invocations, status, visited, prev_status, dir_at_start,
                   all_exit_zero, all_met, r_exit_code>>

\* save_pages.py:134-138  run_node_save returned c: main counts it and moves on
Return(c) ==
    /\ code' = c
    /\ success' = IF IsSuccessCode(c) THEN success + 1 ELSE success
    /\ fail' = IF IsSuccessCode(c) THEN fail ELSE fail + 1
    /\ status' = [status EXCEPT ![idx] = IF IsSuccessCode(c) THEN "success" ELSE "fail"]
    /\ visited' = Append(visited, idx)
    /\ idx' = idx + 1
    /\ pc' = "main"
    /\ UNCHANGED <<attempt, sleeps>>

\* save_pages.py:60-93  one iteration of run_node_save's loop: the external
\* command runs (exit code rc, target file present afterwards or not), then the
\* code returns, or sleeps and goes to the next attempt.
NodeAttempt ==
    /\ UNCHANGED <<mvars, evars>>
    /\ pc = "node"
    /\ \E rc \in ExitCodes, present \in BOOLEAN :
        /\ output_dir' = IF present THEN output_dir \cup {links[idx].file_name}
                                    ELSE output_dir \ {links[idx].file_name}
        /\ invocations' = invocations + 1
        /\ log' = Append(log, MetContract(rc, present))
        /\ first_exit' = IF log = <<>> THEN rc ELSE first_exit
        /\ all_exit_zero' = (all_exit_zero /\ rc = 0)
        /\ all_met' = (all_met /\ MetContract(rc, present))
        /\ IF AttemptOk(rc, AlreadyExists(links[idx].file_name, output_dir'))
             THEN Return(0)
             ELSE IF ShouldRetry(attempt, max_retries)
                    THEN /\ sleeps' = Append(sleeps, WaitTime(attempt))
                         /\ attempt' = attempt + 1
                         /\ UNCHANGED <<pc, idx, code, success, fail, status, visited>>
                    ELSE Return(FailCode(rc))
    /\ UNCHANGED <<rdata, max_retries, run, skipped, prev_status, dir_at_start,
                   full_url, r_exit_code>>

\* Mutant of MainFinish: the loop also ends at the first failed record.
MainFinishStopsOnFail ==
    /\ UNCHANGED <<mvars, evars>>
    /\ pc = "main"
    /\ (idx > Len(links) \/ fail > 0)
    /\ pc' = "done"
    /\ r_exit_code' = 0
    /\ UNCHANGED <<rdata, output_dir, max_retries, run, idx, attempt, code, success,
                   fail, skipped, invocations, sleeps, log, status, visited,
                   prev_status, dir_at_start, full_url, first_exit, all_exit_zero,
                   all_met>>

\* save_pages.py:140-144  the loop is over: the summary is printed
MainFinish ==
    /\ UNCHANGED <<mvars, evars>>
    /\ pc = "main"
    /\ idx > Len(links)
    /\ pc' = "done"
    /\ r_exit_code' = 0
    /\ UNCHANGED <<rdata, output_dir, max_retries, run, idx, attempt, code, success,
                   fail, skipped, invocations, sleeps, log, status, visited,
                   prev_status, dir_at_start, full_url, first_exit, all_exit_zero,
                   all_met>>

\* save_pages.py:109-119  the renderer is started again on the same manifest
\* and output directory
RunAgain ==
    /\ UNCHANGED <<mvars, evars>>
    /\ pc = "done"
    /\ run' = 2
    /\ pc' = "main"
    /\ idx' = 1
    /\ success' = 0 /\ fail' = 0 /\ skipped' = 0
    /\ invocations' = 0
    /\ prev_status' = status
    /\ status' = AllPending
    /\ visited' = <<>>
    /\ dir_at_start' = output_dir
    /\ all_exit_zero' = TRUE /\ all_met' = TRUE
    /\ r_exit_code' = -1
    /\ UNCHANGED <<rdata, output_dir, max_retries, attempt, code, sleeps, log,
                   full_url, first_exit>>

NextRender == MainReadJson \/ MainSkip \/ MainCall \/ NodeAttempt \/ MainFinish \/ RunAgain

SpecRender == InitRender /\ [][NextRender]_vars

\* ================================================================== merger
\* Manifest records the merger may be given; the title stands for the file.
MergeRecords == {[title |-> "A", file_name |-> "A.pdf"],
                 [title |-> "B", file_name |-> "B.pdf"],
                 [title |-> "C", file_name |-> "C.pdf"]}
MergeFileNames == {r.file_name : r \in MergeRecords}

\* What a name is in the PDF directory. "pdf": a readable PDF of `pages` pages.
\* "corrupt": reading it raises after `pages` of its pages were already added
\* to the writer (0 when PdfReader or len(reader.pages) raises).
Missing == [kind |-> "missing", pages |-> 0]
Contents == {Missing}
            \cup {[kind |-> "pdf", pages |-> p] : p \in 0..MaxPages}
            \cup {[kind |-> "corrupt", pages |-> k] : k \in 0..(MaxPages - 1)}

\* The renderer's variables while another stage runs.
RenderIdle ==
    /\ data_ok = FALSE /\ data_base_url = <<>> /\ full_url = <<>> /\ first_exit = -1
    /\ all_exit_zero = TRUE /\ all_met = TRUE /\ r_exit_code = -1
    /\ links = <<>> /\ output_dir = {} /\ max_retries = 0 /\ run = 0 /\ pc = "idle"
    /\ idx = 0 /\ attempt = 0 /\ code = -1 /\ success = 0 /\ fail = 0 /\ skipped = 0
    /\ invocations = 0 /\ sleeps = <<>> /\ log = <<>> /\ status = <<>>
    /\ visited = <<>> /\ prev_status = <<>> /\ dir_at_start = {}

\* Mutant of FileExists: every manifest record is taken as a candidate.
FileExistsAlways(dir, file_name) == TRUE

\* merge_pdfs.py:28  os.path.exists(pdf_path)
FileExists(dir, file_name) == dir[file_name].kind # "missing"

\* Mutant of GetPdfFilesInOrder: the listing stops at the first missing file.
RECURSIVE GetPdfFilesUntilMissing(_, _, _)
GetPdfFilesUntilMissing(ls, exists, dir) ==
    IF ~exists \/ ls = <<>> THEN <<>>
    ELSE LET link == Head(ls)
         IN IF FileExists(dir, link.file_name)
              THEN <<[path |-> link.file_name, title |-> link.title]>>
                     \o GetPdfFilesUntilMissing(Tail(ls), exists, dir)
              ELSE <<>>

\* merge_pdfs.py:16-37  get_pdf_files_in_order
RECURSIVE GetPdfFilesInOrder(_, _, _)
GetPdfFilesInOrder(ls, exists, dir) ==
    IF ~exists \/ ls = <<>> THEN <<>>
    ELSE LET link == Head(ls)
             rest == GetPdfFilesInOrder(Tail(ls), exists, dir)
         IN IF FileExists(dir, link.file_name)
              THEN <<[path |-> link.file_name, title |-> link.title]>> \o rest
              ELSE rest

\* Mutant of NewBookmark: the offset is 1-based.
NewBookmarkOneBased(title, cur, page_count) ==
    [title |-> title, page |-> cur + 1, page_count |-> page_count]

\* merge_pdfs.py:66-70  the bookmark recorded for a document
NewBookmark(title, cur, page_count) ==
    [title |-> title, page |-> cur, page_count |-> page_count]

\* Mutant of MergeResult: a merge that processed nothing is reported failed.
MergeResultFailsWhenEmpty(write_ok) ==
    IF write_ok /\ processed_count > 0
      THEN [success |-> TRUE, page_count |-> current_page,
            processed_count |-> processed_count, error_count |-> error_count,
            bookmarks_count |-> Len(bookmarks), bookmarks |-> bookmarks]
      ELSE [success |-> FALSE]

\* merge_pdfs.py:105-121  the returned dict (output_path and file_size left out)
MergeResult(write_ok) ==
    IF write_ok
      THEN [success |-> TRUE, page_count |-> current_page,
            processed_count |-> processed_count, error_count |-> error_count,
            bookmarks_count |-> Len(bookmarks), bookmarks |-> bookmarks]
      ELSE [success |-> FALSE]

\* merge_pdfs.py:22-35  what the listing decides for each manifest record: a
\* record whose file is not there gets a warning and is left out
StatesAfterListing(ls, exists, dir) ==
    [i \in 1..Len(ls) |-> IF exists /\ FileExists(dir, ls[i].file_name)
                             THEN "Pending" ELSE "MissingFile"]

\* The manifest position of the k-th record that is still pending.
RECURSIVE PendingPosition(_, _, _)
PendingPosition(st, k, from) ==
    IF from > Len(st) THEN 0
    ELSE IF st[from] = "Pending"
           THEN (IF k = 1 THEN from ELSE PendingPosition(st, k - 1, from + 1))
           ELSE PendingPosition(st, k, from + 1)

\* The subsequence of s at the positions in keep, in order.
RECURSIVE SubSeqAt(_, _, _)
SubSeqAt(s, keep, k) ==
    IF k > Len(s) THEN <<>>
    ELSE (IF k \in keep THEN <<s[k]>> ELSE <<>>) \o SubSeqAt(s, keep, k + 1)

InitMerge ==
    /\ RenderIdle
    /\ ExtractIdle
    /\ json_ok \in BOOLEAN
    /\ json_links \in UNION {[1..n -> MergeRecords] : n \in 0..MaxMergeLinks}
    /\ ~json_ok => json_links = <<>>
    /\ dir_exists \in BOOLEAN
    /\ pdf_dir \in [MergeFileNames -> Contents]
    /\ ~dir_exists => \A f \in MergeFileNames : pdf_dir[f] = Missing
    \* a file no record names is never looked at: it stands as missing
    /\ \A f \in MergeFileNames :
          (\A i \in 1..Len(json_links) : json_links[i].file_name # f) => pdf_dir[f] = Missing
    /\ rec_state = [i \in 1..Len(json_links) |-> "Pending"]
    /\ merge_visits = <<>>
    /\ mpc = "start"
    /\ pdf_files = <<>>
    /\ m_i = 0
    /\ processed_count = 0 /\ error_count = 0 /\ current_page = 0 /\ bookmarks = <<>>
    /\ writer_pages = 0
    /\ outline = <<>>
    /\ wrote = FALSE
    /\ result = <<>>
    /\ exit_code = -1

\* Mutant of MainNoJson: an unreadable manifest is not reported in the exit code.
MainNoJsonExitsZero ==
    /\ UNCHANGED <<rvars, evars>>
    /\ mpc = "start"
    /\ ~json_ok
    /\ mpc' = "done"
    /\ exit_code' = 0
    /\ UNCHANGED <<mdata, pdf_files, m_i, processed_count, error_count, current_page,
                   bookmarks, writer_pages, outline, wrote, result, rec_state,
                   merge_visits>>

\* merge_pdfs.py:135-138  the manifest could not be read: main returns 1
MainNoJson ==
    /\ UNCHANGED <<rvars, evars>>
    /\ mpc = "start"
    /\ ~json_ok
    /\ mpc' = "done"
    /\ exit_code' = 1
    /\ UNCHANGED <<mdata, pdf_files, m_i, processed_count, error_count, current_page,
                   bookmarks, writer_pages, outline, wrote, result, rec_state,
                   merge_visits>>

\* merge_pdfs.py:144  main lists the PDFs that exist, in manifest order
FindFiles ==
    /\ UNCHANGED <<rvars, evars>>
    /\ mpc = "start"
    /\ json_ok
    /\ pdf_files' = GetPdfFilesInOrder(json_links, dir_exists, pdf_dir)
    /\ rec_state' = StatesAfterListing(json_links, dir_exists, pdf_dir)
    /\ mpc' = "found"
    /\ UNCHANGED <<mdata, m_i, processed_count, error_count,
                   current_page, bookmarks, writer_pages, outline, wrote, result,
                   exit_code, merge_visits>>

\* merge_pdfs.py:146-148  no PDF was found: main returns 1
MainNoFiles ==
    /\ UNCHANGED <<rvars, evars>>
    /\ mpc = "found"
    /\ pdf_files = <<>>
    /\ mpc' = "done"
    /\ exit_code' = 1
    /\ UNCHANGED <<mdata, pdf_files, m_i, processed_count,
                   error_count, current_page, bookmarks, writer_pages, outline, wrote,
                   result, rec_state, merge_visits>>

\* merge_pdfs.py:153, 45-50  main calls merge_pdfs_with_bookmarks
MergeStart ==
    /\ UNCHANGED <<rvars, evars>>
    /\ mpc = "found"
    /\ pdf_files # <<>>
    /\ mpc' = "merge"
    /\ m_i' = 1
    /\ processed_count' = 0 /\ error_count' = 0 /\ current_page' = 0
    /\ bookmarks' = <<>>
    /\ writer_pages' = 0
    /\ UNCHANGED <<mdata, pdf_files, outline, wrote, result,
                   exit_code, rec_state, merge_visits>>

\* merge_pdfs.py:52-78  one iteration of the merge loop
MergeOne ==
    /\ UNCHANGED <<rvars, evars>>
    /\ mpc = "merge"
    /\ m_i <= Len(pdf_files)
    /\ LET pdf_file == pdf_files[m_i]
           content == pdf_dir[pdf_file.path]
           position == PendingPosition(rec_state, 1, 1)
       IN /\ merge_visits' = Append(merge_visits, position)
          /\ rec_state' = [rec_state EXCEPT ![position] =
                              IF content.kind = "pdf" THEN "Merged" ELSE "ReadError"]
          /\ IF content.kind = "pdf"
            THEN /\ writer_pages' = writer_pages + content.pages
                 /\ IF content.pages > 0
                      THEN /\ bookmarks' = Append(bookmarks,
                                  NewBookmark(pdf_file.title, current_page, content.pages))
                           /\ current_page' = current_page + content.pages
                      ELSE UNCHANGED <<bookmarks, current_page>>
                 /\ processed_count' = processed_count + 1
                 /\ UNCHANGED error_count
            ELSE /\ writer_pages' = writer_pages + content.pages
                 /\ error_count' = error_count + 1
                 /\ UNCHANGED <<bookmarks, current_page, processed_count>>
    /\ m_i' = m_i + 1
    /\ UNCHANGED <<mdata, mpc, pdf_files, outline, wrote,
                   result, exit_code>>

\* merge_pdfs.py:80-121, 155-162  the bookmarks are attached (each attachment may
\* fail and is then only logged), the output is written (which may raise), the
\* dict is returned and main returns its exit code
MergeFinish ==
    /\ UNCHANGED <<rvars, evars>>
    /\ mpc = "merge"
    /\ m_i > Len(pdf_files)
    /\ \E attached \in SUBSET (1..Len(bookmarks)), write_ok \in BOOLEAN :
        /\ outline' = SubSeqAt(bookmarks, attached, 1)
        /\ wrote' = write_ok
        /\ result' = MergeResult(write_ok)
        /\ exit_code' = IF result'.success THEN 0 ELSE 1
    /\ mpc' = "done"
    /\ UNCHANGED <<mdata, pdf_files, m_i, processed_count,
                   error_count, current_page, bookmarks, writer_pages, rec_state,
                   merge_visits>>

NextMerge == MainNoJson \/ FindFiles \/ MainNoFiles \/ MergeStart \/ MergeOne \/ MergeFinish

SpecMerge == InitMerge /\ [][NextMerge]_vars

\* =============================================================== extractor
\* Characters str.split() treats as whitespace (those that occur here).
WhitespaceChars == {" ", "\t", "\n"}
\* Characters for which str.isalnum() holds (those that occur here).
AlnumChars == {"A", "B", "p", "d", "f", "0", "1", "2", "3", "4", "5", "6", "7", "8", "9"}

\* An href attribute: <<>> when the anchor has none, <<value>> otherwise, the
\* value being its characters.
NoHref == <<>>
\* Anchor texts (text_content() of the element).
AnchorTexts == { <<>>,
                 <<" ", "\t">>,
                 <<"A">>,
                 <<"A", "_", "2">>,
                 <<"A", "p">>,
                 <<"A", "\"", "\\">>,
                 <<"\t", "A", " ", "\n", "p", " ">> }
\* The anchors a document may hold. The text of an anchor without a usable
\* href is never read, so two texts stand for all of them; one more href holds
\* a control character.
Anchors == {[href |-> << <<"/", "a">> >>, text |-> t] : t \in AnchorTexts}
           \cup {[href |-> h, text |-> t] : h \in {NoHref, << <<>> >>}, t \in {<<>>, <<"A">>}}
           \cup {[href |-> << <<"/", "\n">> >>, text |-> <<"A">>]}
BaseUrls == { <<"h", ":", "x">>, <<"h", ":", "x", "/">> }

\* str.split(): the maximal runs of non-whitespace characters
RECURSIVE SplitFrom(_, _, _)
SplitFrom(str, k, cur) ==
    IF k > Len(str) THEN (IF cur = <<>> THEN <<>> ELSE <<cur>>)
    ELSE IF str[k] \in WhitespaceChars
           THEN (IF cur = <<>> THEN <<>> ELSE <<cur>>) \o SplitFrom(str, k + 1, <<>>)
           ELSE SplitFrom(str, k + 1, Append(cur, str[k]))
Split(str) == SplitFrom(str, 1, <<>>)

\* ' '.join(words)
RECURSIVE JoinSpace(_)
JoinSpace(words) ==
    IF words = <<>> THEN <<>>
    ELSE IF Len(words) = 1 THEN words[1]
    ELSE words[1] \o <<" ">> \o JoinSpace(Tail(words))

\* str.strip()
Strip(str) == LStripChars(RStripChars(str, WhitespaceChars), WhitespaceChars)

\* extract_urls.py:28  ' '.join(title.split())
NormalizeWhitespace(text) == JoinSpace(Split(text))

\* extract_urls.py:57  a character kept in a file name
IsSafeChar(c) == c \in AlnumChars \/ c \in {" ", "-", "_", "."}

\* extract_urls.py:54-58  safe_title
safe_title(title) == RStripChars(SelectSeq(title, IsSafeChar), WhitespaceChars)

PdfExt == <<".", "p", "d", "f">>

\* Mutant of KeepAnchor: the text is not looked at.
KeepAnchorAnyText(href, title) == href # NoHref /\ href[1] # <<>>

\* extract_urls.py:21-24, 30  the anchor has an href attribute (xpath a[@href]),
\* the href is not empty, and the normalized text is not empty
KeepAnchor(href, title) ==
    /\ href # NoHref
    /\ href[1] # <<>>
    /\ Strip(title) # <<>>

\* extract_urls.py:8-40  extract_urls_from_html, over the document's anchors
RECURSIVE extract_urls_from_html(_)
extract_urls_from_html(doc) ==
    IF doc = <<>> THEN <<>>
    ELSE LET link == Head(doc)
             title == NormalizeWhitespace(link.text)
         IN (IF KeepAnchor(link.href, title)
               THEN <<[url |-> link.href[1],
                       title |-> Strip(title),
                       file_name |-> safe_title(Strip(title)) \o PdfExt]>>
               ELSE <<>>)
            \o extract_urls_from_html(Tail(doc))

\* str(n) for n >= 0
DigitChars == <<"0", "1", "2", "3", "4", "5", "6", "7", "8", "9">>
RECURSIVE IntToStr(_)
IntToStr(n) ==
    IF n < 10 THEN <<DigitChars[n + 1]>>
    ELSE IntToStr(n \div 10) \o <<DigitChars[(n % 10) + 1]>>

\* extract_urls.py:79  file_name.rstrip('.pdf')
StripPdf(file_name) == RStripChars(file_name, {".", "p", "d", "f"})

\* extract_urls.py:80  f"{file_name}_{title_dict[key]}.pdf"
Suffixed(file_name, n) == StripPdf(file_name) \o <<"_">> \o IntToStr(n) \o PdfExt

\* extract_urls.py:72-82  the collision pass from record k on, with title_dict d:
\* the renamed list and the final title_dict
RECURSIVE ResolveFrom(_, _, _)
ResolveFrom(ls, k, d) ==
    IF k > Len(ls) THEN [links |-> ls, title_dict |-> d]
    ELSE LET key == ls[k].file_name
         IN IF key \in DOMAIN d
              THEN LET d2 == [d EXCEPT ![key] = d[key] + 1]
                   IN ResolveFrom([ls EXCEPT ![k].file_name = Suffixed(key, d2[key])],
                                  k + 1, d2)
              ELSE ResolveFrom(ls, k + 1, d @@ (key :> 1))

\* Keys of the manifest, as characters.
KeyTotalCount == <<"t", "o", "t", "a", "l", "C", "o", "u", "n", "t">>
KeyBaseUrl == <<"b", "a", "s", "e", "U", "r", "l">>
KeyLinks == <<"l", "i", "n", "k", "s">>
KeyUrl == <<"u", "r", "l">>
KeyTitle == <<"t", "i", "t", "l", "e">>
KeyFileName == <<"f", "i", "l", "e", "_", "n", "a", "m", "e">>

\* Mutant of EscapeChar: nothing is escaped.
EscapeCharNone(c) == <<c>>

\* json.dump: how a character of a string is written (ensure_ascii=False)
EscapeChar(c) ==
    IF c = "\"" THEN <<"\\", "\"">>
    ELSE IF c = "\\" THEN <<"\\", "\\">>
    ELSE IF c = "\n" THEN <<"\\", "n">>
    ELSE IF c = "\t" THEN <<"\\", "t">>
    ELSE <<c>>

RECURSIVE EscapeAll(_)
EscapeAll(str) == IF str = <<>> THEN <<>> ELSE EscapeChar(Head(str)) \o EscapeAll(Tail(str))

\* json.dump of a str
JsonStr(str) == <<"\"">> \o EscapeAll(str) \o <<"\"">>

Spaces(n) == [k \in 1..n |-> " "]

\* json.dump, indent=2: one member of an object at the given indentation
Member(indent, key, value_text) == Spaces(indent) \o JsonStr(key) \o <<":", " ">> \o value_text

\* json.dump, indent=2: one link record, a member of the links array
DumpLink(link) ==
    Spaces(4) \o <<"{", "\n">>
    \o Member(6, KeyUrl, JsonStr(link.url)) \o <<",", "\n">>
    \o Member(6, KeyTitle, JsonStr(link.title)) \o <<",", "\n">>
    \o Member(6, KeyFileName, JsonStr(link.file_name)) \o <<"\n">>
    \o Spaces(4) \o <<"}">>

RECURSIVE DumpLinkItems(_)
DumpLinkItems(ls) ==
    IF Len(ls) = 1 THEN DumpLink(ls[1])
    ELSE DumpLink(ls[1]) \o <<",", "\n">> \o DumpLinkItems(Tail(ls))

\* json.dump, indent=2: the links array
DumpLinks(ls) ==
    IF ls = <<>> THEN <<"[", "]">>
    ELSE <<"[", "\n">> \o DumpLinkItems(ls) \o <<"\n">> \o Spaces(2) \o <<"]">>

\* extract_urls.py:50-51  json.dump(payload, f, ensure_ascii=False, indent=2)
JsonDump(payload) ==
    <<"{", "\n">>
    \o Member(2, KeyTotalCount, IntToStr(payload.totalCount)) \o <<",", "\n">>
    \o Member(2, KeyBaseUrl, JsonStr(payload.baseUrl)) \o <<",", "\n">>
    \o Member(2, KeyLinks, DumpLinks(payload.links)) \o <<"\n">>
    \o <<"}">>

\* json.load: a value is [kind, v] with kind "str" (characters), "int", "arr"
\* (sequence of values) or "obj" (sequence of <<key, value>> members); a parse
\* gives [ok, v, next] or ParseFail.
ParseFail == [ok |-> FALSE]
JsonWhitespace == {" ", "\n", "\t", "\r"}
Unescape == ("\"" :> "\"") @@ ("\\" :> "\\") @@ ("/" :> "/") @@ ("n" :> "\n") @@ ("t" :> "\t")
DigitValue(c) == CHOOSE d \in 0..9 : DigitChars[d + 1] = c
IsDigit(c) == \E d \in 1..10 : DigitChars[d] = c

RECURSIVE SkipWs(_, _)
SkipWs(t, p) == IF p <= Len(t) /\ t[p] \in JsonWhitespace THEN SkipWs(t, p + 1) ELSE p

\* the characters of a string up to its closing quote; a raw control character
\* or an unknown escape is an error
RECURSIVE ScanString(_, _, _)
ScanString(t, p, acc) ==
    IF p > Len(t) THEN ParseFail
    ELSE IF t[p] = "\"" THEN [ok |-> TRUE, v |-> [kind |-> "str", v |-> acc], next |-> p + 1]
    ELSE IF t[p] = "\\"
           THEN IF p + 1 <= Len(t) /\ t[p + 1] \in DOMAIN Unescape
                  THEN ScanString(t, p + 2, Append(acc, Unescape[t[p + 1]]))
                  ELSE ParseFail
    ELSE IF t[p] \in {"\n", "\t", "\r"} THEN ParseFail
    ELSE ScanString(t, p + 1, Append(acc, t[p]))

RECURSIVE ScanInt(_, _, _)
ScanInt(t, p, n) ==
    IF p <= Len(t) /\ IsDigit(t[p])
      THEN ScanInt(t, p + 1, 10 * n + DigitValue(t[p]))
      ELSE [ok |-> TRUE, v |-> [kind |-> "int", v |-> n], next |-> p]

RECURSIVE ParseValue(_, _), ParseItems(_, _, _), ParseMembers(_, _, _)
ParseValue(t, p0) ==
    LET p == SkipWs(t, p0)
    IN IF p > Len(t) THEN ParseFail
       ELSE IF t[p] = "\"" THEN ScanString(t, p + 1, <<>>)
       ELSE IF IsDigit(t[p]) THEN ScanInt(t, p, 0)
       ELSE IF t[p] = "["
              THEN LET q == SkipWs(t, p + 1)
                   IN IF q <= Len(t) /\ t[q] = "]"
                        THEN [ok |-> TRUE, v |-> [kind |-> "arr", v |-> <<>>], next |-> q + 1]
                        ELSE ParseItems(t, q, <<>>)
       ELSE IF t[p] = "{"
              THEN LET q == SkipWs(t, p + 1)
                   IN IF q <= Len(t) /\ t[q] = "}"
                        THEN [ok |-> TRUE, v |-> [kind |-> "obj", v |-> <<>>], next |-> q + 1]
                        ELSE ParseMembers(t, q, <<>>)
       ELSE ParseFail

\* the items of an array after its opening bracket
ParseItems(t, p, acc) ==
    LET r == ParseValue(t, p)
    IN IF ~r.ok THEN ParseFail
       ELSE LET q == SkipWs(t, r.next)
            IN IF q > Len(t) THEN ParseFail
               ELSE IF t[q] = "," THEN ParseItems(t, q + 1, Append(acc, r.v))
               ELSE IF t[q] = "]"
                      THEN [ok |-> TRUE, v |-> [kind |-> "arr", v |-> Append(acc, r.v)],
                            next |-> q + 1]
               ELSE ParseFail

\* the members of an object after its opening brace
ParseMembers(t, p0, acc) ==
    LET p == SkipWs(t, p0)
    IN IF p > Len(t) \/ t[p] # "\"" THEN ParseFail
       ELSE LET k == ScanString(t, p + 1, <<>>)
            IN IF ~k.ok THEN ParseFail
               ELSE LET c == SkipWs(t, k.next)
                    IN IF c > Len(t) \/ t[c] # ":" THEN ParseFail
                       ELSE LET r == ParseValue(t, c + 1)
                            IN IF ~r.ok THEN ParseFail
                               ELSE LET q == SkipWs(t, r.next)
                                        members == Append(acc, <<k.v.v, r.v>>)
                                    IN IF q > Len(t) THEN ParseFail
                                       ELSE IF t[q] = "," THEN ParseMembers(t, q + 1, members)
                                       ELSE IF t[q] = "}"
                                              THEN [ok |-> TRUE,
                                                    v |-> [kind |-> "obj", v |-> members],
                                                    next |-> q + 1]
                                       ELSE ParseFail

\* json.load: one value, then nothing but whitespace
JsonLoad(t) ==
    LET r == ParseValue(t, 1)
    IN IF r.ok /\ SkipWs(t, r.next) > Len(t) THEN r ELSE ParseFail

EmptyDict == [kind |-> "obj", v |-> <<>>]

\* save_pages.py:9-15  read_json: the loaded value, {} when loading raised
read_json(t) == LET r == JsonLoad(t) IN IF r.ok THEN r.v ELSE EmptyDict

\* extract_urls.py:45-49  the payload write_extracted_json dumps
Payload(ls, url) == [totalCount |-> Len(ls), baseUrl |-> url, links |-> ls]

InitExtract ==
    /\ RenderIdle
    /\ MergeIdle
    /\ html_ok \in BOOLEAN
    /\ html_doc \in UNION {[1..n -> Anchors] : n \in 0..MaxAnchors}
    /\ base_url \in BaseUrls
    /\ ~html_ok => html_doc = <<>>
    /\ epc = "start"
    /\ extracted = <<>>
    /\ e_links = <<>>
    /\ title_dict = <<>>
    /\ manifest = <<>>
    /\ json_text = <<>>
    /\ read_back = <<>>
    /\ e_exit_code = -1

\* extract_urls.py:67-68  open(args.html) or f.read() raises: nothing catches
\* it, and the interpreter exits with code 1
MainNoHtml ==
    /\ UNCHANGED <<rvars, mvars>>
    /\ epc = "start"
    /\ ~html_ok
    /\ epc' = "failed"
    /\ e_exit_code' = 1
    /\ UNCHANGED <<edata, extracted, e_links, title_dict, manifest, json_text, read_back>>

\* extract_urls.py:67-70  links = extract_urls_from_html(html)
Extract ==
    /\ UNCHANGED <<rvars, mvars>>
    /\ epc = "start"
    /\ html_ok
    /\ extracted' = extract_urls_from_html(html_doc)
    /\ e_links' = extracted'
    /\ epc' = "extracted"
    /\ UNCHANGED <<edata, title_dict, manifest, json_text, read_back, e_exit_code>>

\* extract_urls.py:72-82  the collision pass over links
ResolveCollisions ==
    /\ UNCHANGED <<rvars, mvars>>
    /\ epc = "extracted"
    /\ LET r == ResolveFrom(e_links, 1, <<>>)
       IN /\ e_links' = r.links
          /\ title_dict' = r.title_dict
    /\ epc' = "resolved"
    /\ UNCHANGED <<edata, extracted, manifest, json_text, read_back, e_exit_code>>

\* extract_urls.py:84-85, 43-51  write_extracted_json(links, args.base_url,
\* args.out) and the end of main: the file is written and the process exits
\* with code 0, or creating or writing the file raises and it exits with code 1
WriteManifest ==
    /\ UNCHANGED <<rvars, mvars>>
    /\ epc = "resolved"
    /\ \E write_ok \in BOOLEAN :
        IF write_ok
          THEN /\ manifest' = Payload(e_links, base_url)
               /\ json_text' = JsonDump(manifest')
               /\ epc' = "written"
               /\ e_exit_code' = 0
          ELSE /\ epc' = "failed"
               /\ e_exit_code' = 1
               /\ UNCHANGED <<manifest, json_text>>
    /\ UNCHANGED <<edata, extracted, e_links, title_dict, read_back>>

\* save_pages.py:109, 9-15  the renderer reads the manifest the extractor wrote
ReadManifest ==
    /\ UNCHANGED <<rvars, mvars>>
    /\ epc = "written"
    /\ read_back' = read_json(json_text)
    /\ epc' = "read"
    /\ UNCHANGED <<edata, extracted, e_links, title_dict, manifest, json_text, e_exit_code>>

NextExtract == MainNoHtml \/ Extract \/ ResolveCollisions \/ WriteManifest \/ ReadManifest

SpecExtract == InitExtract /\ [][NextExtract]_vars

\* ============================================================ the three CLIs
\* One run of any one of the three stages.
InitCli == InitExtract \/ InitRender \/ InitMerge

NextCli == NextExtract \/ NextRender \/ NextMerge

SpecCli == InitCli /\ [][NextCli]_vars

\* ------------------------------------------------------- renderer: claims
CountStatus(st, s) == Cardinality({i \in DOMAIN st : st[i] = s})
AllFilesAtStart == \A i \in 1..Len(links) : links[i].file_name \in dir_at_start

\* C1 (as stated): in a second run the external command is never invoked and
\* every handled record is counted as skipped, whatever the first run's
\* outcomes were.
C1_SecondRunAlwaysSkipsAll ==
    run = 2 =>
        /\ invocations = 0
        /\ \A i \in 1..Len(links) : status[i] \in {"pending", "skipped"}

\* C1 (amended): in a second run, every record whose target file exists when the
\* run starts is skipped without invoking the command; these include every
\* record the previous run counted as success or skipped. The run makes zero
\* invocations and skips every record exactly when all target files exist at
\* its start.
C1_SecondRunSkipsExisting ==
    run = 2 =>
        /\ \A i \in 1..Len(links) :
            prev_status[i] \in {"success", "skipped"} => links[i].file_name \in dir_at_start
        /\ \A i \in 1..Len(links) :
            links[i].file_name \in dir_at_start => status[i] \in {"pending", "skipped"}
        /\ AllFilesAtStart => invocations = 0 /\ success = 0 /\ fail = 0
        /\ pc = "done" =>
            /\ AllFilesAtStart <=> invocations = 0
            /\ AllFilesAtStart <=> skipped = Len(links)

\* C1 witness: the first run had a success and a failure that left its file; the
\* second run has finished with no invocation and every record skipped.
C1_Witness ==
    /\ run = 2 /\ pc = "done" /\ Len(links) >= 2
    /\ \E i, j \in 1..Len(links) : prev_status[i] = "success" /\ prev_status[j] = "fail"
    /\ invocations = 0 /\ skipped = Len(links)

\* C2: with max_retries = 3, when the command fails on attempts 1 and 2 and
\* succeeds on attempt 3, run_node_save has returned 0 after exactly 3
\* invocations, having slept 1 s then 2 s, with no further invocation or sleep.
C2_RetryThirdAttempt ==
    (/\ max_retries = DefaultMaxRetries
     /\ Len(log) >= 3
     /\ ~log[1] /\ ~log[2] /\ log[3])
    => /\ Len(log) = 3
       /\ pc # "node"
       /\ code = 0
       /\ sleeps = <<1, 2>>

\* C2 witness: a call that failed twice and succeeded on its third attempt.
C2_Witness ==
    /\ max_retries = DefaultMaxRetries
    /\ log = <<FALSE, FALSE, TRUE>>
    /\ pc = "main" /\ code = 0

C4_EveryRecordOnce ==
    /\ visited = [i \in 1..(idx - 1) |-> i]
    /\ \A i \in 1..Len(links) : (status[i] = "pending") <=> (i >= idx)
    /\ success = CountStatus(status, "success")
    /\ fail = CountStatus(status, "fail")
    /\ skipped = CountStatus(status, "skipped")
    /\ success + fail + skipped = idx - 1
    /\ pc = "done" => success + fail + skipped = Len(links)

\* C4 witness: the run is over, its first record failed and a later one was
\* still rendered.
C4_Witness ==
    /\ pc = "done" /\ Len(links) >= 2
    /\ status[1] = "fail" /\ status[2] = "success"

\* C11: the URL given to the external command is baseUrl joined with the
\* record's url with exactly one '/' between them, whatever trailing slashes
\* baseUrl has and whether or not url starts with a slash.
C11_ExactlyOneSeparatingSlash ==
    pc = "node" =>
        full_url = RStripChars(data_base_url, {"/"}) \o <<"/">>
                     \o LStripChars(links[idx].url, {"/"})

C16_RetryBoundAndBackoff ==
    /\ Len(log) <= max_retries + 1
    /\ sleeps = [k \in 1..Len(sleeps) |-> 2 ^ (k - 1)]
    /\ \A k \in 1..(Len(log) - 1) : ~log[k]
    /\ pc = "node" => Len(sleeps) = Len(log) /\ attempt = Len(log)
    /\ (pc # "node" /\ log # <<>>) =>
        /\ Len(sleeps) = Len(log) - 1
        /\ code # 0 => Len(log) = max_retries + 1 /\ ~log[Len(log)]
        /\ code = 0 => log[Len(log)]

\* C16 witness: a call with three retries allowed has returned a failure after
\* four invocations and sleeps of 1, 2 and 4 seconds.
C16_Witness ==
    /\ pc = "main" /\ max_retries = 3 /\ code > 0
    /\ Len(log) = 4 /\ sleeps = <<1, 2, 4>>

\* --------------------------------------------------------- merger: claims
ContentOf(k) == pdf_dir[pdf_files[k].path]
AllReadable == \A k \in 1..Len(pdf_files) : ContentOf(k).kind = "pdf"
NoneReadable == \A k \in 1..Len(pdf_files) : ContentOf(k).kind = "corrupt"

\* p1 + ... + pk over the candidate list.
RECURSIVE PagesBefore(_)
PagesBefore(k) == IF k <= 1 THEN 0 ELSE PagesBefore(k - 1) + ContentOf(k - 1).pages

\* C5 (as stated): N readable PDFs with page counts p1..pN >= 0 give
\* page_count = p1+...+pN and exactly N bookmarks, the i-th with the i-th
\* document's title and page offset p1+...+p(i-1).
C5_OneBookmarkPerDocument ==
    (mpc = "done" /\ wrote /\ AllReadable) =>
        /\ result.page_count = PagesBefore(Len(pdf_files) + 1)
        /\ Len(result.bookmarks) = Len(pdf_files)
        /\ \A k \in 1..Len(pdf_files) :
            /\ result.bookmarks[k].title = pdf_files[k].title
            /\ result.bookmarks[k].page = PagesBefore(k)

\* The candidates that have at least one page, in list order.
RECURSIVE NonEmptyDocs(_)
NonEmptyDocs(k) ==
    IF k > Len(pdf_files) THEN <<>>
    ELSE (IF ContentOf(k).pages > 0 THEN <<k>> ELSE <<>>) \o NonEmptyDocs(k + 1)

\* C5 (amended): N readable PDFs with page counts p1..pN >= 0 give
\* page_count = p1+...+pN and exactly one bookmark per document that has at
\* least one page (none for a document of 0 pages), in list order, each with
\* its document's title, page offset p1+...+p(i-1) and page count pi; so when
\* every pi >= 1 there are exactly N bookmarks, the i-th for the i-th document.
C5_OneBookmarkPerNonEmptyDocument ==
    (mpc = "done" /\ wrote /\ AllReadable) =>
        LET docs == NonEmptyDocs(1)
        IN /\ result.page_count = PagesBefore(Len(pdf_files) + 1)
           /\ result.bookmarks_count = Len(docs)
           /\ Len(result.bookmarks) = Len(docs)
           /\ \A j \in 1..Len(docs) :
               /\ result.bookmarks[j].title = pdf_files[docs[j]].title
               /\ result.bookmarks[j].page = PagesBefore(docs[j])
               /\ result.bookmarks[j].page_count = ContentOf(docs[j]).pages
           /\ (\A k \in 1..Len(pdf_files) : ContentOf(k).pages >= 1)
                => docs = [k \in 1..Len(pdf_files) |-> k]

\* C5 witness: three readable documents, each with pages, merged and written;
\* the third bookmark lies beyond the first page.
C5_Witness ==
    /\ mpc = "done" /\ wrote /\ AllReadable
    /\ Len(pdf_files) = 3
    /\ \A k \in 1..3 : ContentOf(k).pages >= 1
    /\ Len(result.bookmarks) = 3
    /\ result.bookmarks[3].page >= 3

\* A manifest of three records: one file absent, one corrupt, one valid.
OneMissingOneCorruptOneValid ==
    /\ Len(json_links) = 3
    /\ dir_exists
    /\ \E a, b, c \in 1..3 :
        /\ {a, b, c} = {1, 2, 3}
        /\ pdf_dir[json_links[a].file_name].kind = "missing"
        /\ pdf_dir[json_links[b].file_name].kind = "corrupt"
        /\ pdf_dir[json_links[c].file_name].kind = "pdf"

\* C6 (as stated): with one missing, one corrupt and one valid file among three
\* records, processed count = 1, error count = 2 and success = true.
C6_MissingCountsAsError ==
    (mpc = "done" /\ wrote /\ OneMissingOneCorruptOneValid) =>
        /\ result.success
        /\ result.processed_count = 1
        /\ result.error_count = 2

\* C6 (amended): with one missing, one corrupt and one valid file among three
\* records, the missing file is skipped before the merge and is not counted:
\* two candidates, processed count = 1, error count = 1 and success = true
\* (when the write of the output completes).
C6_MissingIsNotCounted ==
    (mpc = "done" /\ OneMissingOneCorruptOneValid) =>
        /\ Len(pdf_files) = 2
        /\ wrote =>
            /\ result.success
            /\ result.processed_count = 1
            /\ result.error_count = 1

\* C6 witness: such a manifest has been merged and written.
C6_Witness ==
    /\ mpc = "done" /\ wrote /\ OneMissingOneCorruptOneValid
    /\ result.success /\ result.error_count = 1

\* C7: every candidate counts as processed or as an error, never both; when the
\* write completes the merge reports success, also when every candidate was
\* unreadable: then processed 0, errors = number of candidates, page count 0.
C7_SuccessWithoutProcessedFiles ==
    /\ mpc = "merge" => processed_count + error_count = m_i - 1
    /\ (mpc = "done" /\ pdf_files # <<>>) =>
        /\ result.success <=> wrote
        /\ wrote =>
            /\ result.processed_count + result.error_count = Len(pdf_files)
            /\ NoneReadable =>
                /\ result.processed_count = 0
                /\ result.error_count = Len(pdf_files)
                /\ result.page_count = 0

\* C7 witness: two or more candidates, all unreadable, and a successful result.
C7_Witness ==
    /\ mpc = "done" /\ wrote /\ NoneReadable
    /\ Len(pdf_files) >= 2
    /\ result.success /\ result.error_count = Len(pdf_files)

\* The manifest positions whose file is in the PDF directory.
PresentPositions ==
    {i \in 1..Len(json_links) : pdf_dir[json_links[i].file_name].kind # "missing"}
PresentRecords == SubSeqAt(json_links, PresentPositions, 1)
CountRecords(st) == Cardinality({i \in 1..Len(rec_state) : rec_state[i] = st})

\* Every record is in one of the four states; a record is MissingFile from the
\* listing on exactly when its file is absent; the candidates are exactly the
\* records whose file is present, in manifest order; the merge loop handles them
\* one by one in manifest order, each once, leaving each Merged or ReadError;
\* and when main returns no record is still Pending.
RecordStatesConsistent ==
    /\ Len(rec_state) = Len(json_links)
    /\ \A i \in 1..Len(rec_state) :
          rec_state[i] \in {"Pending", "MissingFile", "Merged", "ReadError"}
    /\ mpc = "start" => \A i \in 1..Len(rec_state) : rec_state[i] = "Pending"
    /\ mpc \in {"found", "merge", "done"} =>
        /\ \A i \in 1..Len(rec_state) :
              rec_state[i] = "MissingFile" <=> i \notin PresentPositions
        /\ pdf_files = [k \in 1..Len(PresentRecords) |->
                          [path |-> PresentRecords[k].file_name,
                           title |-> PresentRecords[k].title]]
    /\ \A k \in 1..Len(merge_visits) :
        /\ k > 1 => merge_visits[k - 1] < merge_visits[k]
        /\ merge_visits[k] \in 1..Len(json_links)
        /\ json_links[merge_visits[k]].file_name = pdf_files[k].path
        /\ rec_state[merge_visits[k]] =
              IF ContentOf(k).kind = "pdf" THEN "Merged" ELSE "ReadError"
    /\ \A i \in 1..Len(rec_state) :
          rec_state[i] \in {"Merged", "ReadError"} <=>
              \E k \in 1..Len(merge_visits) : merge_visits[k] = i
    /\ mpc = "merge" => Len(merge_visits) = m_i - 1
    /\ processed_count = CountRecords("Merged")
    /\ error_count = CountRecords("ReadError")
    /\ mpc = "done" => \A i \in 1..Len(rec_state) : rec_state[i] # "Pending"

\* A record that has left Pending never changes state again.
RecordStep ==
    \A i \in 1..Len(rec_state) :
        rec_state[i] # "Pending" => rec_state'[i] = rec_state[i]

\* C13: each manifest record goes Pending -> Merged | MissingFile | ReadError
\* once and stays there; the listing decides the missing files and the merge
\* loop handles the others once each in manifest order; the merged files are
\* exactly the manifest records whose file exists, in manifest order; a missing
\* file never stops the run: every record has left Pending when main returns.
C13_PerRecordStateMachine == []RecordStatesConsistent /\ [][RecordStep]_vars

\* C13 witness: a finished run over three records where the second file is
\* missing, the first was merged and the third could not be read.
C13_Witness ==
    /\ mpc = "done"
    /\ rec_state = <<"Merged", "MissingFile", "ReadError">>
    /\ merge_visits = <<1, 3>>

\* C17: the bookmarks list and bookmarks_count of a successful result are
\* exactly the outline entries attached to the written document; a bookmark
\* whose attachment failed is not in the list.
C17_ResultListsAttachedBookmarks ==
    (mpc = "done" /\ wrote) =>
        /\ result.success
        /\ result.bookmarks = outline
        /\ result.bookmarks_count = Len(outline)

\* C18: after every iteration current_page is the number of pages appended to
\* the output document, every recorded bookmark points at the first page of its
\* document, and the reported page_count is the page count of the written
\* document.
C18_CurrentPageIsPagesAppended ==
    /\ mpc \in {"merge", "done"} => current_page = writer_pages
    /\ (mpc = "done" /\ wrote) => result.page_count = writer_pages

\* ------------------------------------------------------ extractor: claims
\* C8: no two records of the written manifest have the same file_name.
C8_UniqueFileNames ==
    epc = "written" =>
        \A i, j \in 1..Len(manifest.links) :
            i # j => manifest.links[i].file_name # manifest.links[j].file_name

\* How many of the first k extracted records have the derived name of record k.
Occurrence(k) ==
    Cardinality({j \in 1..k : extracted[j].file_name = extracted[k].file_name})

\* The derived name without its final ".pdf".
BaseOf(file_name) == SubSeq(file_name, 1, Len(file_name) - Len(PdfExt))

\* C9: the first record with a derived name <base>.pdf keeps it; the k-th record
\* (k >= 2, in document order) with that derived name is renamed <base>_k.pdf,
\* <base> being the derived name less its final ".pdf", whatever <base> ends in.
C9_SuffixKeepsBase ==
    epc \in {"resolved", "written"} =>
        \A k \in 1..Len(extracted) :
            e_links[k].file_name =
                IF Occurrence(k) = 1
                  THEN extracted[k].file_name
                  ELSE BaseOf(extracted[k].file_name) \o <<"_">>
                       \o IntToStr(Occurrence(k)) \o PdfExt

\* The whitespace-collapsed text, read off the text directly: every
\* non-whitespace character is kept, a whitespace run between two
\* non-whitespace characters becomes one space, leading and trailing runs go.
RECURSIVE CollapsedFrom(_, _)
CollapsedFrom(text, k) ==
    IF k > Len(text) THEN <<>>
    ELSE IF text[k] \notin WhitespaceChars THEN <<text[k]>> \o CollapsedFrom(text, k + 1)
    ELSE IF /\ k > 1
            /\ text[k - 1] \notin WhitespaceChars
            /\ \E j \in (k + 1)..Len(text) : text[j] \notin WhitespaceChars
           THEN <<" ">> \o CollapsedFrom(text, k + 1)
           ELSE CollapsedFrom(text, k + 1)
Collapsed(text) == CollapsedFrom(text, 1)

\* The positions, from k on, of the anchors satisfying Keep.
RECURSIVE AnchorsWhere(_, _)
AnchorsWhere(Keep(_), k) ==
    IF k > Len(html_doc) THEN <<>>
    ELSE (IF Keep(html_doc[k]) THEN <<k>> ELSE <<>>) \o AnchorsWhere(Keep, k + 1)

HasText(a) == Collapsed(a.text) # <<>>
HasHrefAttributeAndText(a) == a.href # NoHref /\ HasText(a)
HasHrefAndText(a) == a.href # NoHref /\ a.href # << <<>> >> /\ HasText(a)

\* The extracted records are exactly those of the anchors at positions at, in
\* that order, each with the anchor's href and its collapsed text.
RecordsOf(at) ==
    /\ Len(extracted) = Len(at)
    /\ \A j \in 1..Len(at) :
        /\ html_doc[at[j]].href = <<extracted[j].url>>
        /\ extracted[j].title = Collapsed(html_doc[at[j]].text)

\* C10 (as stated, an anchor being an <a> element that carries an href): one
\* record for every anchor whose whitespace-collapsed text is non-empty, none
\* for the others, in document order, with url = href and title = collapsed
\* text.
C10_RecordPerAnchorWithText ==
    epc # "start" => RecordsOf(AnchorsWhere(HasHrefAttributeAndText, 1))

\* C10 (amended): one record for every anchor that has a non-empty href and
\* whose whitespace-collapsed text is non-empty, none for any other anchor (no
\* href, empty href, or empty or whitespace-only text), in document order, with
\* url = href and title = collapsed text.
C10_RecordPerAnchorWithHrefAndText ==
    epc # "start" => RecordsOf(AnchorsWhere(HasHrefAndText, 1))

\* C10 witness: a document of three anchors, one with text but an empty href,
\* one with whitespace-only text, one whose text needs collapsing; only the last
\* gives a record.
C10_Witness ==
    /\ epc = "extracted"
    /\ Len(html_doc) = 3
    /\ html_doc[1] = [href |-> << <<>> >>, text |-> <<"A">>]
    /\ html_doc[2] = [href |-> << <<"/", "a">> >>, text |-> <<" ", "\t">>]
    /\ html_doc[3].href = << <<"/", "a">> >>
    /\ Len(extracted) = 1
    /\ extracted[1].title = <<"A", " ", "p">>
    /\ html_doc[3].text # extracted[1].title

\* The value of a key of a loaded object (the last member of that name).
RECURSIVE LookupFrom(_, _, _)
LookupFrom(members, key, k) ==
    IF k = 0 THEN [kind |-> "none"]
    ELSE IF members[k][1] = key THEN members[k][2]
    ELSE LookupFrom(members, key, k - 1)
Lookup(obj, key) == LookupFrom(obj.v, key, Len(obj.v))
StrValue(str) == [kind |-> "str", v |-> str]

\* C15: what read_json returns for the file write_extracted_json wrote has
\* totalCount equal to the number of links, baseUrl equal to the base URL
\* given, character for character, and links equal to the written list, record
\* by record in the same order; the list is the one main passes after its
\* collision pass.
C15_ManifestRoundTrip ==
    epc = "read" =>
        /\ read_back.kind = "obj" /\ Len(read_back.v) = 3
        /\ Lookup(read_back, KeyTotalCount) = [kind |-> "int", v |-> Len(e_links)]
        /\ Lookup(read_back, KeyBaseUrl) = StrValue(base_url)
        /\ LET ls == Lookup(read_back, KeyLinks)
           IN /\ ls.kind = "arr" /\ Len(ls.v) = Len(e_links)
              /\ \A i \in 1..Len(e_links) :
                    /\ ls.v[i].kind = "obj" /\ Len(ls.v[i].v) = 3
                    /\ Lookup(ls.v[i], KeyUrl) = StrValue(e_links[i].url)
                    /\ Lookup(ls.v[i], KeyTitle) = StrValue(e_links[i].title)
                    /\ Lookup(ls.v[i], KeyFileName) = StrValue(e_links[i].file_name)

\* C15 witness: a manifest was read back whose records hold a title with a
\* double quote and a backslash, a url with a line feed, and a file name the
\* collision pass has suffixed.
C15_Witness ==
    /\ epc = "read" /\ Len(e_links) = 2
    /\ e_links[1].title = <<"A", "\"", "\\">>
    /\ e_links[2].url = <<"/", "\n">>
    /\ e_links[2].file_name = <<"A", "_", "2">> \o PdfExt

\* -------------------------------------------------------- all stages: claims
\* C14: a stage whose input file could not be read exits with code 1 having
\* done none of its work (no record extracted and no manifest written; no
\* command invoked and no file written; no file listed, no page merged and no
\* output written); a stage that read its input and ran to completion (the
\* manifest was written; the loop over the records ended; the merged document
\* was written) exits with code 0, and no other run does.
C14_StageExitCodes ==
    /\ (epc \notin {"idle", "start"} /\ ~html_ok) =>
        /\ epc = "failed" /\ e_exit_code = 1
        /\ extracted = <<>> /\ manifest = <<>> /\ json_text = <<>>
    /\ epc \in {"written", "read"} => html_ok /\ e_exit_code = 0
    /\ e_exit_code = 0 => epc \in {"written", "read"}
    /\ (pc \notin {"idle", "start"} /\ ~data_ok) =>
        /\ pc = "exit" /\ r_exit_code = 1
        /\ invocations = 0 /\ visited = <<>> /\ output_dir = dir_at_start
    /\ pc = "done" => data_ok /\ r_exit_code = 0
    /\ r_exit_code = 0 => pc = "done"
    /\ r_exit_code = 1 => ~data_ok
    /\ (mpc \notin {"idle", "start"} /\ ~json_ok) =>
        /\ mpc = "done" /\ exit_code = 1
        /\ pdf_files = <<>> /\ writer_pages = 0 /\ ~wrote /\ result = <<>>
    /\ (mpc = "done" /\ json_ok /\ wrote) => exit_code = 0
    /\ exit_code = 0 => (mpc = "done" /\ json_ok /\ wrote)

\* C14 witness: the merger could not read its manifest and has returned 1.
C14_Witness ==
    /\ mpc = "done" /\ ~json_ok /\ exit_code = 1

====
